---------------------------- MODULE Spec2Model ----------------------------
(***************************************************************************)
(* csv_consolidator.py: merge the CSV files of data/unprocessed into one   *)
(* file in data/processed.  A file is a sequence of text lines; a table    *)
(* (DataFrame) is an ordered list of column names and an ordered list of   *)
(* rows, each row a function from column name to value.                    *)
(***************************************************************************)
EXTENDS Integers, Sequences, FiniteSets, TLC

(***************************************************************************)
(* Bounds of the model.                                                    *)
(***************************************************************************)
MaxFiles == 2
MaxRows == 2

(***************************************************************************)
(* Text.  Strings are sequences of characters: SubSeq, Len and \o apply.   *)
(***************************************************************************)
UpperCase == "ABCDEFGHIJKLMNOPQRSTUVWXYZ"
LowerCase == "abcdefghijklmnopqrstuvwxyz"
Digits == "0123456789"

CharAt(s, k) == SubSeq(s, k, k)

\* sub in s
Contains(sub, s) ==
    \E k \in 1..(Len(s) - Len(sub) + 1) : SubSeq(s, k, k + Len(sub) - 1) = sub

\* s.endswith(suffix)
EndsWith(s, suffix) ==
    /\ Len(s) >= Len(suffix)
    /\ SubSeq(s, Len(s) - Len(suffix) + 1, Len(s)) = suffix

LowerChar(c) ==
    IF \E k \in 1..Len(UpperCase) : CharAt(UpperCase, k) = c
    THEN CharAt(LowerCase, CHOOSE k \in 1..Len(UpperCase) : CharAt(UpperCase, k) = c)
    ELSE c

RECURSIVE Lower(_)
\* str.lower()
Lower(s) == IF s = "" THEN "" ELSE LowerChar(CharAt(s, 1)) \o Lower(SubSeq(s, 2, Len(s)))

IsDigit(c) == \E k \in 1..Len(Digits) : CharAt(Digits, k) = c
DigitVal(c) == (CHOOSE k \in 1..Len(Digits) : CharAt(Digits, k) = c) - 1
DigitChar(n) == CharAt(Digits, n + 1)
AllDigits(s) == s # "" /\ \A k \in 1..Len(s) : IsDigit(CharAt(s, k))

RECURSIVE ToInt(_)
ToInt(s) == IF s = "" THEN 0 ELSE 10 * ToInt(SubSeq(s, 1, Len(s) - 1)) + DigitVal(CharAt(s, Len(s)))

\* the fields of one comma-separated line
RECURSIVE Split(_)
Split(line) ==
    IF \E k \in 1..Len(line) : CharAt(line, k) = ","
    THEN LET k == CHOOSE j \in 1..Len(line) :
                     /\ CharAt(line, j) = ","
                     /\ \A h \in 1..(j - 1) : CharAt(line, h) # ","
         IN  <<SubSeq(line, 1, k - 1)>> \o Split(SubSeq(line, k + 1, Len(line)))
    ELSE <<line>>

Range(s) == {s[k] : k \in DOMAIN s}

(***************************************************************************)
(* Values of a table cell, as pandas holds them after parsing.             *)
(***************************************************************************)
NA == [t |-> "na", s |-> ""]
IntVal(s) == [t |-> "int", s |-> s]
FloatVal(s) == [t |-> "float", s |-> s]
StrVal(s) == [t |-> "str", s |-> s]

\* pd.read_csv's type inference for one column: every cell an integer gives
\* int64; integers and empty cells give float64; any other text gives object,
\* whose cells stay strings; an empty cell is null in every case.
InferColumn(cells) ==
    LET numeric == \A k \in DOMAIN cells : cells[k] = "" \/ AllDigits(cells[k])
        hasNull == \E k \in DOMAIN cells : cells[k] = ""
    IN  [k \in DOMAIN cells |->
            IF cells[k] = "" THEN NA
            ELSE IF ~numeric THEN StrVal(cells[k])
            ELSE IF hasNull THEN FloatVal(cells[k])
            ELSE IntVal(cells[k])]

\* pd.read_csv(file_path, skiprows=header_index) on the lines of a file: the
\* first line kept is the header, the others are the data rows.  Each row
\* keeps its index label j and, for the properties only, the file f it is of.
ParseCsv(f, lines) ==
    LET columns == Split(lines[1])
        n == Len(lines) - 1
        field(j, c) == LET fs == Split(lines[j + 1])
                       IN  IF c <= Len(fs) THEN fs[c] ELSE ""
        col(c) == InferColumn([j \in 1..n |-> field(j, c)])
        pos(name) == CHOOSE c \in 1..Len(columns) : columns[c] = name
    IN  [columns |-> columns,
         rows |-> [j \in 1..n |->
                     [src |-> <<f, j>>,
                      cells |-> [name \in Range(columns) |-> col(pos(name))[j]]]]]

HeaderMarker == "ID,Timestamp,Transaction Type"

\* the loop of read_csv_with_metadata: the index of the first line holding
\* the marker, 0 when there is none (header_index == -1)
HeaderIndex(lines) ==
    IF \E k \in 1..Len(lines) : Contains(HeaderMarker, lines[k])
    THEN CHOOSE k \in 1..Len(lines) :
            /\ Contains(HeaderMarker, lines[k])
            /\ \A h \in 1..(k - 1) : ~Contains(HeaderMarker, lines[h])
    ELSE 0

Raised == [ok |-> FALSE]

\* read_csv_with_metadata(file_path); readable is FALSE when open() fails
read_csv_with_metadata(f, file, readable) ==
    IF ~readable \/ HeaderIndex(file) = 0
    THEN Raised
    ELSE [ok |-> TRUE,
          df |-> ParseCsv(f, SubSeq(file, HeaderIndex(file), Len(file)))]

(***************************************************************************)
(* Dates: pd.to_datetime, Series.min, Timestamp.strftime.                  *)
(***************************************************************************)
NaT == [k |-> "NaT"]
None == [k |-> "None"]
Timestamp(y, m, d) == [k |-> "ts", y |-> y, m |-> m, d |-> d]

\* text of the form YYYY-MM-DD naming a month and a day
IsIsoDate(s) ==
    /\ Len(s) = 10
    /\ CharAt(s, 5) = "-" /\ CharAt(s, 8) = "-"
    /\ AllDigits(SubSeq(s, 1, 4)) /\ AllDigits(SubSeq(s, 6, 7)) /\ AllDigits(SubSeq(s, 9, 10))
    /\ ToInt(SubSeq(s, 6, 7)) \in 1..12
    /\ ToInt(SubSeq(s, 9, 10)) \in 1..31

\* pd.to_datetime of one value: a null is NaT, a number counts nanoseconds
\* from the epoch, a string is parsed
ValueParses(v) == v.t # "str" \/ IsIsoDate(v.s)
ToDatetimeValue(v) ==
    IF v.t = "na" THEN NaT
    ELSE IF v.t = "str"
         THEN Timestamp(ToInt(SubSeq(v.s, 1, 4)), ToInt(SubSeq(v.s, 6, 7)), ToInt(SubSeq(v.s, 9, 10)))
         ELSE Timestamp(1970, 1, 1)

\* a < b on Timestamps; every comparison with NaT is False
Before(a, b) ==
    /\ a.k = "ts" /\ b.k = "ts"
    /\ \/ a.y < b.y
       \/ a.y = b.y /\ a.m < b.m
       \/ a.y = b.y /\ a.m = b.m /\ a.d < b.d

\* Series.min() of a datetime column: nulls are skipped, NaT when all are null
SeriesMin(dates) ==
    LET real == {k \in DOMAIN dates : dates[k].k = "ts"}
    IN  IF real = {} THEN NaT
        ELSE dates[CHOOSE k \in real : \A h \in real : ~Before(dates[h], dates[k])]

RECURSIVE PyMin(_)
\* the builtin min(list): the first element no later element is less than
PyMin(l) ==
    IF Len(l) = 1 THEN l[1]
    ELSE LET cur == PyMin(SubSeq(l, 1, Len(l) - 1))
         IN  IF Before(l[Len(l)], cur) THEN l[Len(l)] ELSE cur

RECURSIVE PyMax(_)
\* the builtin max(list)
PyMax(l) ==
    IF Len(l) = 1 THEN l[1]
    ELSE LET cur == PyMax(SubSeq(l, 1, Len(l) - 1))
         IN  IF Before(cur, l[Len(l)]) THEN l[Len(l)] ELSE cur

Pad2(n) == DigitChar(n \div 10) \o DigitChar(n % 10)
Pad4(n) == Pad2(n \div 100) \o Pad2(n % 100)
\* ts.strftime("%m-%d-%Y")
strftime(ts) == Pad2(ts.m) \o "-" \o Pad2(ts.d) \o "-" \o Pad4(ts.y)

date_columns == <<"date", "timestamp", "created_at", "datetime", "time", "Timestamp">>

\* any(date_name in col_lower for date_name in date_columns)
IsDateColumn(col) ==
    \E k \in DOMAIN date_columns : Contains(date_columns[k], Lower(col))

RECURSIVE CsvDateFrom(_, _)
\* the loop of get_csv_date from column k on
CsvDateFrom(df, k) ==
    IF k > Len(df.columns) THEN None
    ELSE LET col == df.columns[k]
             values == [j \in DOMAIN df.rows |-> df.rows[j].cells[col]]
         IN  IF /\ IsDateColumn(col)
                /\ \A j \in DOMAIN values : ValueParses(values[j])
                /\ Len(values) > 0
             THEN SeriesMin([j \in DOMAIN values |-> ToDatetimeValue(values[j])])
             ELSE CsvDateFrom(df, k + 1)

get_csv_date(df) == CsvDateFrom(df, 1)

\* generate_date_range_filename(dfs); now is datetime.now()
generate_date_range_filename(tables, now) ==
    LET all_dates == SelectSeq([k \in DOMAIN tables |-> get_csv_date(tables[k])],
                               LAMBDA d : d # None)
    IN  IF all_dates # <<>>
        THEN LET earliest == PyMin(all_dates)
                 latest == PyMax(all_dates)
             IN  IF earliest.k = "NaT" \/ latest.k = "NaT"
                 THEN Raised
                 ELSE [ok |-> TRUE,
                       name |-> "consolidated_" \o strftime(earliest) \o "_thru_"
                                \o strftime(latest) \o ".csv"]
        ELSE [ok |-> TRUE, name |-> "consolidated_" \o strftime(now) \o ".csv"]

(***************************************************************************)
(* Tables: padding, pd.concat, reindex, to_csv.                            *)
(***************************************************************************)
RECURSIVE Orderings(_)
\* every sequence listing the elements of S once: the orders in which a set
\* of strings can be iterated
Orderings(S) ==
    IF S = {} THEN {<<>>}
    ELSE UNION {{<<c>> \o o : o \in Orderings(S \ {c})} : c \in S}

\* a padding that fills the missing columns with 0 instead of a null
PadColumnsMutant(df, order) ==
    [columns |-> df.columns \o order,
     rows |-> [j \in DOMAIN df.rows |->
                 [src |-> df.rows[j].src,
                  cells |-> [c \in Range(df.columns) \cup Range(order) |->
                               IF c \in Range(df.columns) THEN df.rows[j].cells[c]
                               ELSE IntVal("0")]]]]

\* for col in all_headers: if col not in df.columns: df[col] = pd.NA
\* (lines 157-159); order is the order the set iteration met the missing ones
PadColumns(df, order) ==
    [columns |-> df.columns \o order,
     rows |-> [j \in DOMAIN df.rows |->
                 [src |-> df.rows[j].src,
                  cells |-> [c \in Range(df.columns) \cup Range(order) |->
                               IF c \in Range(df.columns) THEN df.rows[j].cells[c] ELSE NA]]]]

RECURSIVE ConcatColumns(_)
\* the columns of pd.concat(dfs): each name once, in order of first appearance
ConcatColumns(tables) ==
    IF tables = <<>> THEN <<>>
    ELSE LET before == ConcatColumns(SubSeq(tables, 1, Len(tables) - 1))
         IN  before \o SelectSeq(tables[Len(tables)].columns,
                                 LAMBDA c : c \notin Range(before))

RECURSIVE ConcatRowsMutant(_)
\* a concatenation that puts each later table in front
ConcatRowsMutant(tables) ==
    IF tables = <<>> THEN <<>>
    ELSE tables[Len(tables)].rows \o ConcatRowsMutant(SubSeq(tables, 1, Len(tables) - 1))

RECURSIVE ConcatRows(_)
ConcatRows(tables) ==
    IF tables = <<>> THEN <<>>
    ELSE ConcatRows(SubSeq(tables, 1, Len(tables) - 1)) \o tables[Len(tables)].rows

\* the value v of a column of the concatenated frame: an integer becomes a
\* float when the column also holds a float or a null and no string
Upcast(v, column) ==
    IF /\ v.t = "int"
       /\ \A w \in column : w.t # "str"
       /\ \E w \in column : w.t \in {"float", "na"}
    THEN FloatVal(v.s)
    ELSE v

\* pd.concat(dfs, ignore_index=True)
Concat(tables) ==
    LET columns == ConcatColumns(tables)
        rows == ConcatRows(tables)
        at(j, c) == IF c \in DOMAIN rows[j].cells THEN rows[j].cells[c] ELSE NA
        column(c) == {at(j, c) : j \in DOMAIN rows}
    IN  [columns |-> columns,
         rows |-> [j \in DOMAIN rows |->
                     [src |-> rows[j].src,
                      cells |-> [c \in Range(columns) |-> Upcast(at(j, c), column(c))]]]]

\* a reindex that was left out
ReindexMutant(df, order) == df

\* final_df.reindex(columns=order)
Reindex(df, order) ==
    [columns |-> order,
     rows |-> [j \in DOMAIN df.rows |->
                 [src |-> df.rows[j].src,
                  cells |-> [c \in Range(order) |->
                               IF c \in DOMAIN df.rows[j].cells
                               THEN df.rows[j].cells[c] ELSE NA]]]]

\* the text to_csv writes for one value
Render(v) == IF v.t = "float" THEN v.s \o ".0" ELSE v.s

\* final_df.to_csv(output_path, index=False): the header and one line of
\* fields per row; src, which the file does not hold, is the input file and
\* row each line comes from, kept for the properties
to_csv(name, df) ==
    [name |-> name,
     header |-> df.columns,
     lines |-> [j \in DOMAIN df.rows |->
                  [k \in DOMAIN df.columns |-> Render(df.rows[j].cells[df.columns[k]])]],
     src |-> [j \in DOMAIN df.rows |-> df.rows[j].src]]

(***************************************************************************)
(* The input directories of the model.                                     *)
(***************************************************************************)
PlainHeader == "ID,Timestamp,Transaction Type"
\* a header line that holds the marker inside a longer first column name
RefHeader == "Ref ID,Timestamp,Transaction Type"

\* the export with the Ref ID column starts with a line of metadata
Preamble(header) == IF header = RefHeader THEN <<"Export of account 7">> ELSE <<>>

Cycle(texts, j) == texts[((j - 1) % Len(texts)) + 1]

\* the text of row j's cell in a column, for the files of each header
CellText(header, col, j) ==
    IF header = PlainHeader
    THEN CASE col = "ID" -> Cycle(<<"1", "2", "3">>, j)
           [] col = "Timestamp" -> Cycle(<<"2024-01-05", "2024-01-10", "2024-01-02">>, j)
           [] col = "Transaction Type" -> Cycle(<<"buy", "sell", "buy">>, j)
    ELSE CASE col = "Ref ID" -> Cycle(<<"7", "", "9">>, j)
           [] col = "Timestamp" -> Cycle(<<"", "2023-12-31", "n/a">>, j)
           [] col = "Transaction Type" -> Cycle(<<"fee", "sell", "x">>, j)

RECURSIVE Join(_)
Join(fields) ==
    IF Len(fields) = 1 THEN fields[1]
    ELSE Join(SubSeq(fields, 1, Len(fields) - 1)) \o "," \o fields[Len(fields)]

ExportFile(header, n) ==
    LET cols == Split(header)
    IN  Preamble(header) \o <<header>>
        \o [j \in 1..n |-> Join([c \in DOMAIN cols |-> CellText(header, cols[c], j)])]

NoMarkerFile == <<"ID,Time,Type", "1,noon,buy">>

\* a plain export with no row or with MaxRows rows, an export with the Ref ID
\* column with one row or with MaxRows rows, and a file without the marker
FilePool ==
    {ExportFile(PlainHeader, n) : n \in {0, MaxRows}}
    \cup {ExportFile(RefHeader, n) : n \in {1, MaxRows}}
    \cup {NoMarkerFile}

Directories == UNION {[1..n -> FilePool] : n \in 0..MaxFiles}

\* what the user can type at the prompt; EOF is a closed standard input
Answers == {"y", "Y", "yes", "n", ""}
EOF == "<EOF>"

NoArg == [given |-> FALSE, name |-> ""]
Arg(name) == [given |-> TRUE, name |-> name]
\* sys.argv[1], or None
OutputArgs == {NoArg, Arg("merged"), Arg("merged.csv")}

\* datetime.now()
Clock == {Timestamp(2026, 11, 2)}

(***************************************************************************)
(* consolidate_csvs.                                                       *)
(***************************************************************************)
VARIABLES
    csv_files,        \* the files of data/unprocessed, in discovery order
    pc,               \* where consolidate_csvs is
    i,                \* the file the current loop is at
    headers_by_file,  \* the column set of each file read so far
    all_headers,      \* the column set the merge uses
    prompts,          \* how many times input() was called
    typed,            \* the line input() returned
    response,         \* that line, lowered
    dfs,              \* the padded tables of the files read by the merge loop
    skipped,          \* the files the merge loop logged an error for
    output_filename,  \* the name of the output file, once known
    explicit,         \* whether the caller gave the name
    processed,        \* the files written to data/processed, oldest first
    failure,          \* how the run failed, "" when it did not
    io_failed,        \* whether a read of this run failed on open()
    history           \* the earlier runs on this directory

vars == <<csv_files, pc, i, headers_by_file, all_headers, prompts, typed, response, dfs,
          skipped, output_filename, explicit, processed, failure, io_failed, history>>

Fresh ==
    /\ pc = "start"
    /\ i = 1
    /\ headers_by_file = <<>>
    /\ all_headers = {}
    /\ prompts = 0
    /\ typed = ""
    /\ response = ""
    /\ dfs = <<>>
    /\ skipped = {}
    /\ output_filename = ""
    /\ explicit = FALSE
    /\ failure = ""
    /\ io_failed = FALSE

Init ==
    /\ csv_files \in Directories
    /\ processed = <<>>
    /\ history = <<>>
    /\ Fresh

\* lines 124-129
Discover ==
    /\ pc = "start"
    /\ IF csv_files = <<>>
       THEN /\ failure' = "empty"
            /\ pc' = "done"
       ELSE /\ failure' = failure
            /\ pc' = "headers"
    /\ UNCHANGED <<csv_files, i, headers_by_file, all_headers, prompts, typed, response,
                   dfs, skipped, output_filename, explicit, processed, io_failed, history>>

\* one iteration of the loop of get_all_headers (lines 78-86); a failure is
\* raised again there and by consolidate_csvs (lines 191-193)
ReadHeaders ==
    /\ pc = "headers"
    /\ \E readable \in BOOLEAN :
          \E r \in {read_csv_with_metadata(i, csv_files[i], readable)} :
              /\ io_failed' = (io_failed \/ ~readable)
              /\ IF r.ok
                 THEN /\ headers_by_file' = Append(headers_by_file, Range(r.df.columns))
                      /\ all_headers' = all_headers \cup Range(r.df.columns)
                      /\ i' = IF i = Len(csv_files) THEN 1 ELSE i + 1
                      /\ pc' = IF i = Len(csv_files) THEN "reconcile" ELSE "headers"
                      /\ failure' = failure
                 ELSE /\ failure' = "schema"
                      /\ pc' = "done"
                      /\ UNCHANGED <<headers_by_file, all_headers, i>>
    /\ UNCHANGED <<csv_files, prompts, typed, response, dfs, skipped, output_filename,
                   explicit, processed, history>>

\* a test that takes the word yes for an acceptance too
DeclinedMutant(answer) == answer \notin {"y", "yes"}

\* response != 'y' (line 147)
Declined(answer) == answer # "y"

\* lines 136-149
Reconcile ==
    /\ pc = "reconcile"
    /\ LET base_headers == headers_by_file[1]
           new_headers == all_headers \ base_headers
       IN  IF new_headers # {}
           THEN \E answer \in Answers \cup {EOF} :
                   /\ prompts' = prompts + 1
                   /\ IF answer = EOF
                      THEN /\ failure' = "input"
                           /\ pc' = "done"
                           /\ UNCHANGED <<typed, response, all_headers>>
                      ELSE /\ typed' = answer
                           /\ response' = Lower(answer)
                           /\ all_headers' = IF Declined(response') THEN base_headers
                                             ELSE all_headers
                           /\ pc' = "merge"
                           /\ failure' = failure
           ELSE /\ pc' = "merge"
                /\ UNCHANGED <<prompts, typed, response, all_headers, failure>>
    /\ UNCHANGED <<csv_files, i, headers_by_file, dfs, skipped, output_filename, explicit,
                   processed, io_failed, history>>

\* one iteration of the merge loop (lines 153-164)
MergeFile ==
    /\ pc = "merge"
    /\ \E readable \in BOOLEAN :
          \E r \in {read_csv_with_metadata(i, csv_files[i], readable)} :
              /\ io_failed' = (io_failed \/ ~readable)
              /\ IF r.ok
                 THEN /\ \E order \in Orderings(all_headers \ Range(r.df.columns)) :
                            dfs' = Append(dfs, PadColumns(r.df, order))
                      /\ skipped' = skipped
                 ELSE /\ dfs' = dfs
                      /\ skipped' = skipped \cup {i}
    /\ i' = IF i = Len(csv_files) THEN 1 ELSE i + 1
    /\ pc' = IF i = Len(csv_files) THEN "finish" ELSE "merge"
    /\ UNCHANGED <<csv_files, headers_by_file, all_headers, prompts, typed, response,
                   output_filename, explicit, processed, failure, history>>

\* lines 177-180: the name of the output file
OutputName(arg, tables, now) ==
    IF ~arg.given THEN generate_date_range_filename(tables, now)
    ELSE IF ~EndsWith(arg.name, ".csv") THEN [ok |-> TRUE, name |-> arg.name \o ".csv"]
    ELSE [ok |-> TRUE, name |-> arg.name]

\* a test of the merged tables that never stops the run
NoValidFilesMutant(tables) == FALSE

\* if not dfs (line 166)
NoValidFiles(tables) == tables = <<>>

\* lines 166-189
Finish ==
    /\ pc = "finish"
    /\ pc' = "done"
    /\ IF NoValidFiles(dfs)
       THEN /\ failure' = "novalid"
            /\ UNCHANGED <<output_filename, explicit, processed>>
       ELSE \E final_df \in {Concat(dfs)}, arg \in OutputArgs, now \in Clock :
               \E named \in {OutputName(arg, dfs, now)} :
                   /\ explicit' = arg.given
                   /\ IF named.ok
                      THEN /\ output_filename' = named.name
                           /\ failure' = failure
                           /\ \E order \in Orderings(all_headers) :
                                 processed' = Append(processed,
                                     to_csv(named.name, Reindex(final_df, order)))
                      ELSE /\ failure' = "naming"
                           /\ UNCHANGED <<output_filename, processed>>
    /\ UNCHANGED <<csv_files, i, headers_by_file, all_headers, prompts, typed, response,
                   dfs, skipped, io_failed, history>>

\* the program is started again on the same directory after a run that wrote
\* its output under a name the caller gave and met no unreadable file
Rerun ==
    /\ pc = "done"
    /\ history = <<>>
    /\ failure = "" /\ explicit /\ ~io_failed
    /\ history' = <<[typed |-> typed, prompts |-> prompts,
                     output_filename |-> output_filename]>>
    /\ pc' = "start"
    /\ i' = 1
    /\ headers_by_file' = <<>>
    /\ all_headers' = {}
    /\ prompts' = 0
    /\ typed' = ""
    /\ response' = ""
    /\ dfs' = <<>>
    /\ skipped' = {}
    /\ output_filename' = ""
    /\ explicit' = FALSE
    /\ UNCHANGED <<csv_files, processed, failure, io_failed>>

Next == Discover \/ ReadHeaders \/ Reconcile \/ MergeFile \/ Finish

Spec == Init /\ [][Next]_vars

\* two runs on one directory of files that all hold the marker
RerunDirectories ==
    UNION {[1..n -> {ExportFile(PlainHeader, 1), ExportFile(RefHeader, 1)}] : n \in 1..2}

InitRerun ==
    /\ csv_files \in RerunDirectories
    /\ processed = <<>>
    /\ history = <<>>
    /\ Fresh

NextRerun == Next \/ Rerun

SpecRerun == InitRerun /\ [][NextRerun]_vars

(***************************************************************************)
(* The input files as the properties read them: straight from the text.    *)
(***************************************************************************)
Files == DOMAIN csv_files
Marked(f) == \E k \in DOMAIN csv_files[f] : Contains(HeaderMarker, csv_files[f][k])
HeaderLine(f) ==
    CHOOSE k \in DOMAIN csv_files[f] :
        /\ Contains(HeaderMarker, csv_files[f][k])
        /\ \A h \in 1..(k - 1) : ~Contains(HeaderMarker, csv_files[f][h])
FileColumns(f) == Split(csv_files[f][HeaderLine(f)])
ColumnSet(f) == Range(FileColumns(f))
DataRows(f) == Len(csv_files[f]) - HeaderLine(f)
\* the texts of the cells of data row j of file f
SourceCells(f, j) == Split(csv_files[f][HeaderLine(f) + j])
\* the text of the cell of column c in data row j of file f
SourceText(f, j, c) ==
    SourceCells(f, j)[CHOOSE p \in DOMAIN FileColumns(f) : FileColumns(f)[p] = c]
UnionOfColumns == UNION {ColumnSet(f) : f \in Files}
CommonColumns == {c \in UnionOfColumns : \A f \in Files : c \in ColumnSet(f)}
BaseColumns == ColumnSet(1)

Written == processed # <<>>
Output == processed[Len(processed)]
\* the run got past the schema pass
Reconciled ==
    \/ pc \in {"merge", "finish"}
    \/ pc = "done" /\ failure \in {"", "novalid", "naming", "input"}
\* the rows the merge loop read: every data row of every file it did not skip
MergedRows == UNION {{<<f, j>> : j \in 1..DataRows(f)} : f \in Files \ skipped}
\* the place of column c in the header of the output
Place(c) == CHOOSE p \in DOMAIN Output.header : Output.header[p] = c
\* the line of the output that comes from row j of file f
LineOf(f, j) == CHOOSE k \in DOMAIN Output.src : Output.src[k] = <<f, j>>

(***************************************************************************)
(* C1: every line of a written file has one field for each column of the   *)
(* final column list and for no other, in the header's order, whatever     *)
(* columns the source files had.                                           *)
(***************************************************************************)
C1_UniformColumns ==
    \A k \in DOMAIN processed :
        /\ Range(processed[k].header) = all_headers
        /\ Len(processed[k].header) = Cardinality(all_headers)
        /\ \A j \in DOMAIN processed[k].lines :
              Len(processed[k].lines[j]) = Len(processed[k].header)

\* a file was written from a file that had a column outside the final list
\* and a file that lacked a column of it, both with rows
C1_Witness ==
    /\ pc = "done" /\ Written
    /\ \E a, b \in Files \ skipped :
          /\ DataRows(a) > 0 /\ DataRows(b) > 0
          /\ ColumnSet(a) \ all_headers # {}
          /\ all_headers \ ColumnSet(b) # {}

(***************************************************************************)
(* C2: when all the files have the same column set, nothing is asked and   *)
(* the columns of the output are in the order of the first file.           *)
(***************************************************************************)
C2_FirstFileOrder ==
    (/\ pc = "done" /\ Written
     /\ \A f \in Files : ColumnSet(f) = BaseColumns)
    => (prompts = 0 /\ Output.header = FileColumns(1))

(***************************************************************************)
(* C3: with a file that holds the marker and a file that does not, and     *)
(* every file readable, the run writes an output holding the rows of the   *)
(* files with the marker and no other.                                     *)
(***************************************************************************)
C3_SkipsMarkerless ==
    (/\ pc = "done" /\ ~io_failed
     /\ \E f \in Files : Marked(f)
     /\ \E f \in Files : ~Marked(f))
    => /\ Written
       /\ Range(Output.src) =
             UNION {{<<f, j>> : j \in 1..DataRows(f)} : f \in {g \in Files : Marked(g)}}

(***************************************************************************)
(* C4: a run that fails writes nothing; a file is written only at the end, *)
(* after the merge loop went through every file and read at least one.     *)
(***************************************************************************)
C4_NoOutputOnFailure ==
    /\ failure # "" => processed = <<>>
    /\ processed # <<>> =>
          /\ pc = "done"
          /\ dfs # <<>>
          /\ Len(dfs) + Cardinality(skipped) = Len(csv_files)

\* every file passed the schema pass and none could be read by the merge loop
C4_Witness ==
    /\ pc = "done" /\ failure = "novalid" /\ processed = <<>>
    /\ Cardinality(skipped) = Len(csv_files)
    /\ Len(csv_files) > 1

(***************************************************************************)
(* C5 as stated: the prompt is answered once, and the schema is the union  *)
(* when the answer is yes in any case, the base columns otherwise.         *)
(***************************************************************************)
C5_YesGivesUnion ==
    (Reconciled /\ prompts = 1 /\ failure # "input")
    => all_headers = IF Lower(typed) \in {"y", "yes"} THEN UnionOfColumns
                     ELSE BaseColumns

(***************************************************************************)
(* C5 amended: input() is called once when a file has a column the first   *)
(* file lacks and never otherwise; the schema is the union when the line   *)
(* read is the single letter y or Y, and the base columns for every other  *)
(* line, the word yes and the empty line included.                         *)
(***************************************************************************)
C5_OnlyLetterY ==
    Reconciled =>
        /\ prompts = IF UnionOfColumns # BaseColumns THEN 1 ELSE 0
        /\ (prompts = 1 /\ failure # "input")
              => all_headers = IF typed \in {"y", "Y"} THEN UnionOfColumns
                               ELSE BaseColumns

\* the user typed yes and the output has the base columns only
C5_Witness ==
    /\ pc = "done" /\ Written
    /\ prompts = 1 /\ typed = "yes"
    /\ UnionOfColumns # BaseColumns
    /\ Range(Output.header) = BaseColumns

(***************************************************************************)
(* C6: the column set of the output is the union or the intersection of    *)
(* the column sets of the input files.                                     *)
(***************************************************************************)
C6_UnionOrIntersection ==
    (pc = "done" /\ Written)
    => Range(Output.header) \in {UnionOfColumns, CommonColumns}

SameValue(a, b) == b = a \/ (AllDigits(a) /\ b = a \o ".0")

C8_Idempotent ==
    (/\ pc = "done" /\ Len(history) = 1 /\ Len(processed) = 2
     /\ failure = "" /\ explicit /\ ~io_failed
     /\ output_filename = history[1].output_filename
     /\ prompts = history[1].prompts
     /\ typed = history[1].typed)
    => processed[1] = processed[2]

(***************************************************************************)
(* C9: the lines of the output are the rows of the files the merge loop    *)
(* read, file after file in discovery order and row after row in each      *)
(* file's order; a skipped file gives no line.                             *)
(***************************************************************************)
RowBefore(a, b) == a[1] < b[1] \/ (a[1] = b[1] /\ a[2] < b[2])

C9_RowOrder ==
    (pc = "done" /\ Written)
    => /\ \A a, b \in DOMAIN Output.src : a < b => RowBefore(Output.src[a], Output.src[b])
       /\ Range(Output.src) = MergedRows

\* an output of two rows or more written by a run that skipped a file
C9_Witness ==
    /\ pc = "done" /\ Written
    /\ skipped # {}
    /\ Len(Output.src) > 1

(***************************************************************************)
(* C10: with no name given, the output is named from the earliest and the  *)
(* latest of the tables' representative dates, each the minimum of the     *)
(* table's first date-like column that parses, a table without one giving  *)
(* nothing; with no representative date at all it is named from today.     *)
(***************************************************************************)
ColumnValues(df, k) == {df.rows[j].cells[df.columns[k]] : j \in DOMAIN df.rows}
ParsingDateColumns(df) ==
    {k \in DOMAIN df.columns :
        /\ IsDateColumn(df.columns[k])
        /\ df.rows # <<>>
        /\ \A v \in ColumnValues(df, k) : ValueParses(v)}
\* the dates of the table's first date-like column that parses
FirstColumnDates(df) ==
    IF ParsingDateColumns(df) = {} THEN {}
    ELSE LET k == CHOOSE a \in ParsingDateColumns(df) :
                     \A b \in ParsingDateColumns(df) : a <= b
         IN  {ToDatetimeValue(v) : v \in ColumnValues(df, k)} \ {NaT}
Earliest(dates) == CHOOSE d \in dates : \A e \in dates : ~Before(e, d)
Latest(dates) == CHOOSE d \in dates : \A e \in dates : ~Before(d, e)
RepresentativeDates ==
    {Earliest(FirstColumnDates(dfs[k])) :
        k \in {h \in DOMAIN dfs : FirstColumnDates(dfs[h]) # {}}}

C10_DerivedName ==
    (pc = "done" /\ ~explicit /\ dfs # <<>> /\ failure \in {"", "naming"})
    => /\ Written
       /\ IF RepresentativeDates = {}
          THEN \E now \in Clock :
                  Output.name = "consolidated_" \o strftime(now) \o ".csv"
          ELSE Output.name = "consolidated_" \o strftime(Earliest(RepresentativeDates))
                             \o "_thru_" \o strftime(Latest(RepresentativeDates)) \o ".csv"
=============================================================================
